---------------------------- MODULE Spec2Model ----------------------------
(***************************************************************************)
(* A model of bl-backup: the pull side (src/pop/sftp_pull_to_zip.py) and   *)
(* the push side (src/push/push_archive_to_vm.py).                         *)
(*                                                                         *)
(* Strings are sequences of one-character strings, so that the string      *)
(* operations of the code (startswith, endswith, replace, strip, split)    *)
(* are computed character by character as the code computes them.          *)
(***************************************************************************)
EXTENDS Integers, Sequences, FiniteSets, TLC

VARIABLES
    \* the router alone
    rt_pc, rt_cfg, rt_path, rt_routes, rt_out,
    \* upload_zip / upload_tar: the archive, the options, the entry reached,
    \* and the remote side (its tree, and the requests it received)
    up_pc, up_family, up_archive, up_strip, up_routes, up_i, up_remote,
    \* the remote tree that is pulled, and the walks of sftp_walk over it
    wk_tree, wk,
    \* the pull loop of main: the exclusion suffixes, the triple and file
    \* reached, the archive written and the requests made for files
    pl_pc, pl_exclude, pl_t, pl_f, pl_zip, pl_ops,
    \* one file's mode on its way from the pull to the push: as captured, as
    \* stored in the entry, as decoded, and the chmod requests made with it
    md_pc, md_st_mode, md_attr, md_detected, md_ops,
    \* the push run: main's position, the db_restore configuration, the remote
    \* commands executed, the importer's stdin, and how the run ended
    ps_pc, ps_cfg, ps_cmds, ps_sent, ps_stdin_closed, ps_error, ps_success,
    ps_closed,
    \* what the run holds: the SSH client, and the open handles of the archive
    rs_client, rs_archive,
    \* the dump: the loop's position, the channel of the remote pg_dump, what
    \* was written to the archive entry, and the error raised
    dp_pc, dp_chan, dp_entry, dp_spun, dp_error

routeVars == <<rt_pc, rt_cfg, rt_path, rt_routes, rt_out>>
uploadVars == <<up_pc, up_family, up_archive, up_strip, up_routes, up_i, up_remote>>

walkVars == <<wk_tree, wk>>

pullVars == <<pl_pc, pl_exclude, pl_t, pl_f, pl_zip, pl_ops>>

modeVars == <<md_pc, md_st_mode, md_attr, md_detected, md_ops>>

pushVars == <<ps_pc, ps_cfg, ps_cmds, ps_sent, ps_stdin_closed, ps_error,
              ps_success, ps_closed>>

resVars == <<rs_client, rs_archive>>

dumpVars == <<dp_pc, dp_chan, dp_entry, dp_spun, dp_error>>

vars == <<routeVars, uploadVars, walkVars, pullVars, modeVars, pushVars, resVars,
          dumpVars>>

\* what the actions of one part leave alone
exceptRoute == <<uploadVars, walkVars, pullVars, modeVars, pushVars, resVars, dumpVars>>
exceptUpload == <<routeVars, walkVars, pullVars, modeVars, pushVars, rs_client, dumpVars>>
exceptWalk == <<routeVars, uploadVars, pullVars, modeVars, pushVars, resVars, dumpVars>>
exceptPull == <<routeVars, uploadVars, modeVars, pushVars, dumpVars>>
exceptMode == <<routeVars, uploadVars, walkVars, pullVars, pushVars, resVars, dumpVars>>
exceptPush == <<routeVars, uploadVars, walkVars, pullVars, modeVars, dumpVars>>
exceptDump == <<routeVars, uploadVars, walkVars, pullVars, modeVars, pushVars, resVars>>

(***************************************************************************)
(* Strings                                                                 *)
(***************************************************************************)
SLASH == "/"
BACKSLASH == "\\"
DOT == "."
SPACE == " "

\* All strings over alphabet A of length at most n.
Strs(A, n) == UNION {[1..k -> A] : k \in 0..n}

Drop(s, n) == IF n >= Len(s) THEN <<>> ELSE SubSeq(s, n + 1, Len(s))

\* str.startswith / str.endswith
StartsWith(s, p) == Len(p) <= Len(s) /\ SubSeq(s, 1, Len(p)) = p

EndsWith(s, p) ==
    Len(p) <= Len(s) /\ SubSeq(s, Len(s) - Len(p) + 1, Len(s)) = p

\* "//" in p
HasDoubleSlash(s) == \E i \in 1..(Len(s) - 1) : s[i] = SLASH /\ s[i + 1] = SLASH

\* p.replace("\\", "/")
ReplaceBackslash(s) == [i \in 1..Len(s) |-> IF s[i] = BACKSLASH THEN SLASH ELSE s[i]]

\* one pass of p.replace("//", "/"): non-overlapping occurrences, left to right
RECURSIVE ReplaceDoubleSlash(_)
ReplaceDoubleSlash(s) ==
    IF Len(s) < 2 THEN s
    ELSE IF s[1] = SLASH /\ s[2] = SLASH
         THEN <<SLASH>> \o ReplaceDoubleSlash(Drop(s, 2))
         ELSE <<s[1]>> \o ReplaceDoubleSlash(Tail(s))

\* while "//" in p: p = p.replace("//", "/")
RECURSIVE CollapseSlashes(_)
CollapseSlashes(s) ==
    IF HasDoubleSlash(s) THEN CollapseSlashes(ReplaceDoubleSlash(s)) ELSE s

\* while p.startswith("/") or p.startswith("./"): p = p[1:] or p[2:]
RECURSIVE StripLeading(_)
StripLeading(s) ==
    IF StartsWith(s, <<SLASH>>) THEN StripLeading(Drop(s, 1))
    ELSE IF StartsWith(s, <<DOT, SLASH>>) THEN StripLeading(Drop(s, 2))
    ELSE s

normalize_arcpath(p) == CollapseSlashes(StripLeading(ReplaceBackslash(p)))

\* s.lstrip(c), s.rstrip(c), s.strip(c) for a one-character c
RECURSIVE LStrip(_, _)
LStrip(s, c) == IF s # <<>> /\ s[1] = c THEN LStrip(Tail(s), c) ELSE s

RECURSIVE RStrip(_, _)
RStrip(s, c) ==
    IF s # <<>> /\ s[Len(s)] = c THEN RStrip(SubSeq(s, 1, Len(s) - 1), c) ELSE s

StripChar(s, c) == RStrip(LStrip(s, c), c)

(***************************************************************************)
(* Routing: build_routes and resolve_destination                           *)
(***************************************************************************)
FileRoute(src, dst) == [src_prefix |-> src, dst_root |-> dst]

\* insertion of r behind every route whose prefix is at least as long:
\* list.sort(key=len, reverse=True) is stable
RECURSIVE InsertByLenDesc(_, _)
InsertByLenDesc(sorted, r) ==
    IF sorted = <<>> THEN <<r>>
    ELSE IF Len(Head(sorted).src_prefix) >= Len(r.src_prefix)
         THEN <<Head(sorted)>> \o InsertByLenDesc(Tail(sorted), r)
         ELSE <<r>> \o sorted

RECURSIVE SortByLenDesc(_)
SortByLenDesc(rs) ==
    IF rs = <<>> THEN <<>>
    ELSE InsertByLenDesc(SortByLenDesc(SubSeq(rs, 1, Len(rs) - 1)), rs[Len(rs)])

\* a faulty variant of SortRoutes: the routes stay in configuration order
SortRoutesUnsorted(rs) == rs

\* routes.sort(key=lambda r: len(r.src_prefix), reverse=True)
SortRoutes(rs) == SortByLenDesc(rs)

\* the loop of build_routes: normalise each item, drop the empty ones
RECURSIVE CollectRoutes(_)
CollectRoutes(map_cfg) ==
    IF map_cfg = <<>> THEN <<>>
    ELSE LET item == Head(map_cfg)
             src == normalize_arcpath(StripChar(StripChar(item.from, SPACE), SLASH))
             dst == StripChar(item.to, SPACE)
         IN  IF src = <<>> \/ dst = <<>>
             THEN CollectRoutes(Tail(map_cfg))
             ELSE <<FileRoute(src, dst)>> \o CollectRoutes(Tail(map_cfg))

build_routes(map_cfg) == SortRoutes(CollectRoutes(map_cfg))

\* norm == r.src_prefix or norm.startswith(r.src_prefix + "/")
RouteMatches(norm, r) ==
    norm = r.src_prefix \/ StartsWith(norm, r.src_prefix \o <<SLASH>>)

RECURSIVE FirstMatch(_, _, _)
FirstMatch(norm, routes, default_root) ==
    IF routes = <<>> THEN <<default_root, norm>>
    ELSE IF RouteMatches(norm, Head(routes))
         THEN <<Head(routes).dst_root,
                LStrip(Drop(norm, Len(Head(routes).src_prefix)), SLASH)>>
         ELSE FirstMatch(norm, Tail(routes), default_root)

resolve_destination(rel_path, routes, default_root) ==
    FirstMatch(normalize_arcpath(rel_path), routes, default_root)

(***************************************************************************)
(* The router alone: a configuration and a path are drawn, build_routes    *)
(* and resolve_destination are applied.                                    *)
(***************************************************************************)
MaxFromLen == 3
MaxPathLen == 3

FromAlphabet == {"a", SLASH}
PathAlphabet == {"a", SLASH, DOT}

DefaultRoot == <<SLASH, "d">>
\* the destination of the i-th configured item: its own root, or empty
RootOfItem(i) == IF i = 1 THEN <<SLASH, "s">> ELSE <<SLASH, "t">>
ItemsAt(i) ==
    {[from |-> f, to |-> t] : f \in Strs(FromAlphabet, MaxFromLen),
                              t \in {RootOfItem(i), <<>>}}
RouteConfigs ==
    {<<>>} \cup {<<x>> : x \in ItemsAt(1)}
           \cup {<<x, y>> : x \in ItemsAt(1), y \in ItemsAt(2)}

\* the router is not part of this run
RouteIdle ==
    /\ rt_pc = "idle" /\ rt_cfg = <<>> /\ rt_path = <<>>
    /\ rt_routes = <<>> /\ rt_out = <<>>

RouteInit ==
    /\ rt_pc = "config"
    /\ rt_cfg \in RouteConfigs
    /\ rt_path \in Strs(PathAlphabet, MaxPathLen)
    /\ rt_routes = <<>>
    /\ rt_out = <<>>

BuildRoutes ==
    /\ rt_pc = "config"
    /\ rt_routes' = build_routes(rt_cfg)
    /\ rt_pc' = "routed"
    /\ UNCHANGED <<rt_cfg, rt_path, rt_out, exceptRoute>>

ResolveDestination ==
    /\ rt_pc = "routed"
    /\ rt_out' = resolve_destination(rt_path, rt_routes, DefaultRoot)
    /\ rt_pc' = "resolved"
    /\ UNCHANGED <<rt_cfg, rt_path, rt_routes, exceptRoute>>

RouteNext == BuildRoutes \/ ResolveDestination

(***************************************************************************)
(* Claims about the router                                                 *)
(***************************************************************************)
RoutesOf(routes) == {routes[i] : i \in 1..Len(routes)}

\* the tail left of path p once prefix/ is removed, as the claim words it
TailAfter(p, prefix) == IF p = prefix THEN <<>> ELSE Drop(p, Len(prefix) + 1)

\* the pair <<root, tail>> is the answer the claim describes for path p
LongestPrefixAnswer(p, routes, out) ==
    LET matching == {r \in RoutesOf(routes) : RouteMatches(p, r)}
    IN  IF matching = {}
        THEN out = <<DefaultRoot, p>>
        ELSE \E r \in matching :
                /\ \A q \in matching : Len(q.src_prefix) <= Len(r.src_prefix)
                /\ out = <<r.dst_root, TailAfter(p, r.src_prefix)>>

\* C2 (as stated): the answer is the longest-prefix answer for the path as given,
\* and without a matching route the path comes back unchanged.
C2_AsStated ==
    (rt_pc = "resolved" /\ ~StartsWith(rt_path, <<SLASH>>)) =>
        LongestPrefixAnswer(rt_path, rt_routes, rt_out)

\* C2 (amended): for every path and every configuration order,
\* resolve_destination over build_routes' output gives the longest-prefix answer
\* for the normalised path: the root of a matching route whose prefix no other
\* matching route exceeds, with the tail left after prefix/, or the default root
\* with the normalised path when no route matches.
C2_LongestPrefixWins ==
    rt_pc = "resolved" =>
        LongestPrefixAnswer(normalize_arcpath(rt_path), rt_routes, rt_out)

\* C2 witness: the shorter of two matching routes is configured first and the
\* longer one is selected.
C2_Witness ==
    /\ rt_pc = "resolved"
    /\ Len(rt_cfg) = 2
    /\ rt_cfg[1].from = <<"a">> /\ rt_cfg[1].to = RootOfItem(1)
    /\ rt_cfg[2].from = <<"a", SLASH, "a">> /\ rt_cfg[2].to = RootOfItem(2)
    /\ rt_path = <<"a", SLASH, "a">>
    /\ rt_out = <<RootOfItem(2), <<>>>>

(***************************************************************************)
(* PurePosixPath: a path is parsed into an absolute flag and its segments  *)
(* (empty and "." segments are dropped, ".." is kept), and printed back.   *)
(***************************************************************************)
RECURSIVE SplitSlash(_)
SplitSlash(s) ==
    IF \A i \in 1..Len(s) : s[i] # SLASH THEN <<s>>
    ELSE LET k == CHOOSE i \in 1..Len(s) :
                      s[i] = SLASH /\ \A j \in 1..(i - 1) : s[j] # SLASH
         IN  <<SubSeq(s, 1, k - 1)>> \o SplitSlash(Drop(s, k))

RECURSIVE JoinSlash(_)
JoinSlash(segs) ==
    IF segs = <<>> THEN <<>>
    ELSE IF Len(segs) = 1 THEN segs[1]
    ELSE segs[1] \o <<SLASH>> \o JoinSlash(Tail(segs))

IsRealSegment(seg) == seg # <<>> /\ seg # <<DOT>>

PurePosixPath(s) ==
    [abs |-> StartsWith(s, <<SLASH>>),
     segs |-> SelectSeq(SplitSlash(s), IsRealSegment)]

\* str(path)
PathStr(pp) ==
    IF pp.abs THEN <<SLASH>> \o JoinSlash(pp.segs)
    ELSE IF pp.segs = <<>> THEN <<DOT>> ELSE JoinSlash(pp.segs)

\* a / b, a.joinpath(b): an absolute b replaces a
PathJoin(a, b) == IF b.abs THEN b ELSE [abs |-> a.abs, segs |-> a.segs \o b.segs]

\* path.parent
PathParent(pp) ==
    IF pp.segs = <<>> THEN pp
    ELSE [abs |-> pp.abs, segs |-> SubSeq(pp.segs, 1, Len(pp.segs) - 1)]

\* path.parts
PathParts(pp) == (IF pp.abs THEN <<(<<SLASH>>)>> ELSE <<>>) \o pp.segs

\* str(root.joinpath(rel)).startswith(str(root))
is_safe_join(root, rel) == StartsWith(PathStr(PathJoin(root, rel)), PathStr(root))

(***************************************************************************)
(* The remote side. fs maps each existing path (absolute, with ".."        *)
(* resolved as the remote system resolves it) to its node; ops is the list *)
(* of the requests received, each with the archive entry it was made for;  *)
(* failed is set once a request raised out of the uploader.                *)
(***************************************************************************)
RECURSIVE ResolveDots(_, _)
ResolveDots(done, segs) ==
    IF segs = <<>> THEN done
    ELSE IF Head(segs) = <<DOT, DOT>>
         THEN ResolveDots(IF done = <<>> THEN <<>>
                          ELSE SubSeq(done, 1, Len(done) - 1), Tail(segs))
         ELSE ResolveDots(Append(done, Head(segs)), Tail(segs))

\* the node a request for path p reaches
RemoteResolve(p) == <<SLASH>> \o JoinSlash(ResolveDots(<<>>, PurePosixPath(p).segs))

RemoteParent(rp) == PathStr(PathParent(PurePosixPath(rp)))

Exists(R, rp) == rp \in DOMAIN R.fs
IsDir(R, rp) == Exists(R, rp) /\ R.fs[rp].kind = "dir"

\* absent metadata (None)
NoValue == -1

LoggedWith(R, op, p, e, ok, bits) ==
    Append(R.ops, [op |-> op, path |-> p, entry |-> e, ok |-> ok, bits |-> bits])

Logged(R, op, p, e, ok) == LoggedWith(R, op, p, e, ok, NoValue)

WithNode(R, rp, node) ==
    [x \in DOMAIN R.fs \cup {rp} |-> IF x = rp THEN node ELSE R.fs[x]]

\* sftp.mkdir: fails when the path exists or its parent is no directory
Mkdir(R, p, e) ==
    LET rp == RemoteResolve(p)
        ok == ~Exists(R, rp) /\ IsDir(R, RemoteParent(rp))
    IN  [R EXCEPT !.ops = Logged(R, "mkdir", p, e, ok),
                  !.fs = IF ok THEN WithNode(R, rp, [kind |-> "dir", data |-> <<>>])
                         ELSE R.fs]

\* sftp.remove: fails when there is no file or link at the path
Remove(R, p, e) ==
    LET rp == RemoteResolve(p)
        ok == Exists(R, rp) /\ ~IsDir(R, rp)
    IN  [R EXCEPT !.ops = Logged(R, "remove", p, e, ok),
                  !.fs = IF ok THEN [x \in DOMAIN R.fs \ {rp} |-> R.fs[x]]
                         ELSE R.fs]

SymlinkPossible(R, p) ==
    LET rp == RemoteResolve(p) IN ~Exists(R, rp) /\ IsDir(R, RemoteParent(rp))

\* sftp.symlink: fails when the path exists, its parent is no directory, or the
\* server refuses (granted = FALSE)
Symlink(R, target, p, e, granted) ==
    LET ok == granted /\ SymlinkPossible(R, p)
    IN  [R EXCEPT !.ops = Logged(R, "symlink", p, e, ok),
                  !.fs = IF ok
                         THEN WithNode(R, RemoteResolve(p),
                                       [kind |-> "link", data |-> target])
                         ELSE R.fs]

OpenPossible(R, p) ==
    LET rp == RemoteResolve(p) IN ~IsDir(R, rp) /\ IsDir(R, RemoteParent(rp))

\* sftp.open(p, "wb") and the copy loop: the file is created or truncated and
\* the payload written; a failure to open raises out of the uploader
PutFile(R, p, payload, e) ==
    LET ok == OpenPossible(R, p)
    IN  [R EXCEPT !.ops = Logged(R, "open", p, e, ok),
                  !.fs = IF ok
                         THEN WithNode(R, RemoteResolve(p),
                                       [kind |-> "file", data |-> payload])
                         ELSE R.fs,
                  !.failed = ~ok]

\* x & y on naturals
RECURSIVE BitAnd(_, _)
BitAnd(x, y) ==
    IF x = 0 \/ y = 0 THEN 0
    ELSE (x % 2) * (y % 2) + 2 * BitAnd(x \div 2, y \div 2)

PermMask == 4095     \* 0o7777

\* sftp.utime / sftp.chmod succeed on an existing node unless the server
\* denies that kind of request to the account
Permitted(R, request, rpath) ==
    Exists(R, RemoteResolve(rpath)) /\ request \notin R.denies

\* a faulty variant of set_times_and_mode: one try block around both requests,
\* so that a failed utime leaves out the chmod
set_times_and_mode_one_try(R, rpath, mtime, mode, e) ==
    LET utime_ok == mtime = NoValue \/ Permitted(R, "utime", rpath)
        R1 == IF mtime # NoValue
              THEN [R EXCEPT !.ops = Logged(R, "utime", rpath, e, utime_ok)]
              ELSE R
    IN  IF mode # NoValue /\ utime_ok
        THEN [R1 EXCEPT !.ops = LoggedWith(R1, "chmod", rpath, e,
                                           Permitted(R1, "chmod", rpath),
                                           BitAnd(mode, PermMask))]
        ELSE R1

\* set_times_and_mode: utime when a time is given, then chmod when a mode is
\* given; a failure of either is swallowed
set_times_and_mode(R, rpath, mtime, mode, e) ==
    LET R1 == IF mtime # NoValue
              THEN [R EXCEPT !.ops = Logged(R, "utime", rpath, e,
                                            Permitted(R, "utime", rpath))]
              ELSE R
    IN  IF mode # NoValue
        THEN [R1 EXCEPT !.ops = LoggedWith(R1, "chmod", rpath, e,
                                           Permitted(R1, "chmod", rpath),
                                           BitAnd(mode, PermMask))]
        ELSE R1

\* a faulty variant of MkdirEach: the first failed mkdir ends the loop
RECURSIVE MkdirEachUntilFailure(_, _, _, _)
MkdirEachUntilFailure(R, cur, parts, e) ==
    IF parts = <<>> THEN R
    ELSE LET next == PathJoin(cur, PurePosixPath(Head(parts)))
             R1 == Mkdir(R, PathStr(next), e)
         IN  IF R1.ops[Len(R1.ops)].ok
             THEN MkdirEachUntilFailure(R1, next, Tail(parts), e)
             ELSE R1

\* the loop of ensure_remote_dirs over the parts
RECURSIVE MkdirEach(_, _, _, _)
MkdirEach(R, cur, parts, e) ==
    IF parts = <<>> THEN R
    ELSE LET next == PathJoin(cur, PurePosixPath(Head(parts)))
         IN  MkdirEach(Mkdir(R, PathStr(next), e), next, Tail(parts), e)

ensure_remote_dirs(R, path, e) ==
    MkdirEach(R,
              IF StartsWith(path, <<SLASH>>) THEN PurePosixPath(<<SLASH>>)
              ELSE PurePosixPath(<<DOT>>),
              PathParts(PurePosixPath(path)), e)

(***************************************************************************)
(* upload_zip and upload_tar                                               *)
(***************************************************************************)
S_IFMT == 61440      \* 0o170000
S_IFLNK == 40960     \* 0o120000
S_IFREG == 32768     \* 0o100000
S_IFDIR == 16384     \* 0o040000

\* The external attributes are a 32-bit word, kept as its two 16-bit halves.
\* x << 16 for a 16-bit x, and w >> 16
ShiftLeft16(x) == [hi |-> x, lo |-> 0]
ShiftRight16(w) == w.hi

\* detect_zip_unix_mode: the mode (absent when the upper half is 0) and whether
\* the entry is a symlink
detect_zip_unix_mode(external_attr) ==
    LET ext == ShiftRight16(external_attr)
    IN  [mode |-> IF ext # 0 THEN BitAnd(ext, PermMask) ELSE NoValue,
         is_symlink |-> BitAnd(ext, S_IFMT) = S_IFLNK]

\* normalize_arcpath(n).split("/", 1)[0]
TopSegment(n) == Head(SplitSlash(normalize_arcpath(n)))

\* first_top_level: the one first segment all names share, or none (written <<>>,
\* which the callers test for truth like None); the scan stops at a second one
RECURSIVE ScanTops(_, _)
ScanTops(names, tops) ==
    IF names = <<>>
    THEN IF tops = {} THEN <<>> ELSE CHOOSE t \in tops : TRUE
    ELSE LET top == TopSegment(Head(names))
             tops1 == IF top # <<>> THEN tops \cup {top} ELSE tops
         IN  IF Cardinality(tops1) > 1 THEN <<>> ELSE ScanTops(Tail(names), tops1)

first_top_level(names) == ScanTops(names, {})

EntryNames(archive) == [i \in 1..Len(archive) |-> archive[i].name]

\* rel with the shared top segment removed, when stripping applies
StripTop(rel, top, strip) ==
    IF strip /\ top # <<>> /\ StartsWith(rel, top \o <<SLASH>>)
    THEN Drop(rel, Len(top) + 1)
    ELSE rel

\* the file write both uploaders end with, then the metadata
PutAndStamp(R, rpath, payload, mtime, mode, e) ==
    LET R1 == PutFile(R, rpath, payload, e)
    IN  IF R1.failed THEN R1 ELSE set_times_and_mode(R1, rpath, mtime, mode, e)

\* the relative path upload_zip routes: a directory entry loses its trailing
\* slash, then the shared top segment is removed
ZipRel(zi, top, strip) ==
    LET name == normalize_arcpath(zi.name)
    IN  StripTop(IF EndsWith(name, <<SLASH>>) THEN SubSeq(name, 1, Len(name) - 1)
                 ELSE name, top, strip)

\* one iteration of the loop of upload_zip, for entry number e
ZipEntry(R, zi, e, top, strip, routes, base, granted) ==
    LET name == normalize_arcpath(zi.name)
        is_dir == EndsWith(name, <<SLASH>>)
        rel == ZipRel(zi, top, strip)
        dest == resolve_destination(rel, routes, base)
        root == PurePosixPath(dest[1])
        tail == PurePosixPath(dest[2])
        rpath == PathStr(PathJoin(root, tail))
        det == detect_zip_unix_mode(zi.external_attr)
    IN  IF name = <<>> \/ rel = <<>> THEN R
        ELSE IF ~is_safe_join(root, tail) THEN R
        ELSE IF is_dir
        THEN set_times_and_mode(ensure_remote_dirs(R, rpath, e),
                                rpath, NoValue, det.mode, e)
        ELSE LET R1 == ensure_remote_dirs(R, PathStr(PathParent(PurePosixPath(rpath))), e)
             IN  IF det.is_symlink
                 THEN LET R2 == Symlink(Remove(R1, rpath, e), zi.data, rpath, e, granted)
                      IN  IF R2.ops[Len(R2.ops)].ok THEN R2
                          ELSE PutAndStamp(R2, rpath, zi.data, zi.mtime, det.mode, e)
                 ELSE PutAndStamp(R1, rpath, zi.data, zi.mtime, det.mode, e)

\* m.mtime if m.mtime else None, m.mode if m.mode else None
OrNone(v) == IF v # 0 THEN v ELSE NoValue

\* the relative path upload_tar routes
TarRel(m, top, strip) == StripTop(normalize_arcpath(m.name), top, strip)

\* one iteration of the loop of upload_tar, for member number e
TarEntry(R, m, e, top, strip, routes, base, granted) ==
    LET name == normalize_arcpath(m.name)
        rel == TarRel(m, top, strip)
        dest == resolve_destination(rel, routes, base)
        root == PurePosixPath(dest[1])
        tail == PurePosixPath(dest[2])
        rpath == PathStr(PathJoin(root, tail))
    IN  IF name = <<>> \/ rel = <<>> THEN R
        ELSE IF ~is_safe_join(root, tail) THEN R
        ELSE IF m.type = "DIRTYPE"
        THEN set_times_and_mode(ensure_remote_dirs(R, rpath, e),
                                rpath, OrNone(m.mtime), OrNone(m.mode), e)
        ELSE LET R1 == ensure_remote_dirs(R, PathStr(PathParent(PurePosixPath(rpath))), e)
                 linked == m.type = "SYMTYPE" /\ m.data # <<>>
                 R2 == IF linked
                       THEN Symlink(Remove(R1, rpath, e), m.data, rpath, e, granted)
                       ELSE R1
             IN  IF linked /\ R2.ops[Len(R2.ops)].ok THEN R2
                 ELSE IF m.type = "REGTYPE"
                 THEN PutAndStamp(R2, rpath, m.data, OrNone(m.mtime), OrNone(m.mode), e)
                 ELSE R2

(***************************************************************************)
(* An upload run: an archive of one family, the options and a route table  *)
(* are drawn; the remote side holds the base root (main creates it before  *)
(* the upload) and a directory /e outside of every destination root.       *)
(***************************************************************************)
MaxEntries == 2

BaseRoot == <<SLASH, "d">>
OutsideDir == <<SLASH, "e">>

ZipInfo(name, ext, data) ==
    [name |-> name, external_attr |-> ShiftLeft16(ext), data |-> data, mtime |-> 5]

TarInfo(name, type, mode, mtime, data) ==
    [name |-> name, type |-> type, mode |-> mode, mtime |-> mtime, data |-> data]

ZipEntries ==
    { ZipInfo(<<"r", SLASH>>, S_IFDIR + 493, <<>>),
      ZipInfo(<<"r", SLASH, "a">>, S_IFREG + 420, <<"y">>),
      ZipInfo(<<"r", SLASH, "b">>, S_IFLNK + 511, <<"x">>),
      ZipInfo(<<"r", SLASH, "b">>, S_IFREG + 2541, <<"z">>),
      ZipInfo(<<"a">>, 0, <<"y">>),
      ZipInfo(<<DOT, DOT, SLASH, "e", SLASH, "p">>, S_IFREG + 420, <<"y">>),
      ZipInfo(<<"s", SLASH, "a">>, S_IFREG + 420, <<"y">>) }

TarEntries ==
    { TarInfo(<<"r">>, "DIRTYPE", 493, 5, <<>>),
      TarInfo(<<"r", SLASH, "a">>, "REGTYPE", 420, 5, <<"y">>),
      TarInfo(<<"r", SLASH, "b">>, "SYMTYPE", 511, 5, <<"x">>),
      TarInfo(<<"r", SLASH, "b">>, "REGTYPE", 2541, 5, <<"z">>),
      TarInfo(<<"a">>, "REGTYPE", 0, 0, <<"y">>),
      TarInfo(<<DOT, DOT, SLASH, "e", SLASH, "p">>, "REGTYPE", 420, 5, <<"y">>),
      TarInfo(<<"s", SLASH, "a">>, "REGTYPE", 420, 5, <<"y">>),
      TarInfo(<<"r", SLASH, "f">>, "FIFOTYPE", 420, 5, <<>>) }

Archives(entries) == UNION {[1..k -> entries] : k \in 0..MaxEntries}

UploadRouteTables ==
    { build_routes(<<>>),
      build_routes(<<[from |-> <<"s">>, to |-> <<SLASH, "t">>]>>) }

Directory == [kind |-> "dir", data |-> <<>>]

InitialRemote ==
    [fs |-> [x \in {<<SLASH>>, BaseRoot, OutsideDir} |-> Directory],
     ops |-> <<>>,
     failed |-> FALSE,
     denies |-> {}]

\* the metadata requests the server may deny
Denials == SUBSET {"utime", "chmod"}

UploadIdle ==
    /\ up_pc = "idle" /\ up_family = "none" /\ up_archive = <<>>
    /\ up_strip = FALSE /\ up_routes = <<>> /\ up_i = 0
    /\ up_remote = InitialRemote

UploadInit ==
    /\ up_pc = "upload"
    /\ up_family \in {"zip", "tar"}
    /\ up_archive \in Archives(IF up_family = "zip" THEN ZipEntries ELSE TarEntries)
    /\ up_strip \in BOOLEAN
    /\ up_routes \in UploadRouteTables
    /\ up_i = 1
    /\ up_remote \in {[InitialRemote EXCEPT !.denies = d] : d \in Denials}

\* a faulty variant of LeaveWith: the handle stays open
LeaveWithLeak(handles) == handles

\* the end of a with block, reached by return or by an exception: the handle
\* it opened is closed
LeaveWith(handles) == handles - 1

\* the state after one loop iteration left the remote side as R
AfterEntry(R) ==
    /\ up_remote' = R
    /\ up_i' = up_i + 1
    /\ up_pc' = IF R.failed THEN "failed" ELSE "upload"
    /\ rs_archive' = IF R.failed THEN LeaveWith(rs_archive) ELSE rs_archive
    /\ UNCHANGED <<up_family, up_archive, up_strip, up_routes, exceptUpload>>

UploadZipEntry ==
    /\ up_pc = "upload" /\ up_family = "zip" /\ up_i <= Len(up_archive)
    /\ \E granted \in BOOLEAN :
          AfterEntry(ZipEntry(up_remote, up_archive[up_i], up_i,
                              first_top_level(EntryNames(up_archive)),
                              up_strip, up_routes, BaseRoot, granted))

UploadTarEntry ==
    /\ up_pc = "upload" /\ up_family = "tar" /\ up_i <= Len(up_archive)
    /\ \E granted \in BOOLEAN :
          AfterEntry(TarEntry(up_remote, up_archive[up_i], up_i,
                              first_top_level(EntryNames(up_archive)),
                              up_strip, up_routes, BaseRoot, granted))

\* the loop is exhausted and the archive closed
UploadReturn ==
    /\ up_pc = "upload" /\ up_i > Len(up_archive)
    /\ up_pc' = "done"
    /\ rs_archive' = LeaveWith(rs_archive)
    /\ UNCHANGED <<up_family, up_archive, up_strip, up_routes, up_i, up_remote,
                   exceptUpload>>

UploadNext == UploadZipEntry \/ UploadTarEntry \/ UploadReturn

(***************************************************************************)
(* Claims about the uploaders                                              *)
(***************************************************************************)
\* the root and tail the uploader resolves for entry number e of the run
DestinationOf(e) ==
    LET top == first_top_level(EntryNames(up_archive))
        rel == IF up_family = "zip" THEN ZipRel(up_archive[e], top, up_strip)
               ELSE TarRel(up_archive[e], top, up_strip)
    IN  resolve_destination(rel, up_routes, BaseRoot)

\* p is root itself or lies below it
Under(p, root) == p = root \/ StartsWith(p, root \o <<SLASH>>)

\* root joined with tail leaves root once ".." is resolved
Escapes(e) ==
    LET dest == DestinationOf(e)
        joined == PathStr(PathJoin(PurePosixPath(dest[1]), PurePosixPath(dest[2])))
    IN  /\ dest[2] # <<>>
        /\ ~Under(RemoteResolve(joined), RemoteResolve(dest[1]))

\* C1: no request (mkdir, open for write, remove, symlink, chmod, utime) is
\* made to the remote side for an entry whose path escapes its destination root.
C1_NoMutationForTraversal ==
    \A i \in 1..Len(up_remote.ops) : ~Escapes(up_remote.ops[i].entry)

\* every name of the archive begins with the one segment top followed by "/"
SingleRooted(top) ==
    /\ up_archive # <<>>
    /\ top # <<>>
    /\ \A i \in 1..Len(up_archive) :
          StartsWith(normalize_arcpath(up_archive[i].name), top \o <<SLASH>>)

DestinationRoots == {BaseRoot} \cup {r.dst_root : r \in RoutesOf(up_routes)}

\* the path has the segment top directly under a destination root
WrapperUnderRoot(p, top) ==
    \E root \in DestinationRoots : Under(p, root \o <<SLASH>> \o top)

\* C3: with strip-top-level on and every entry below one shared top segment, no
\* path with that segment directly under a destination root is created or
\* written on the remote side.
C3_WrapperNeverCreated ==
    LET top == first_top_level(EntryNames(up_archive))
    IN  (up_strip /\ SingleRooted(top)) =>
            \A i \in 1..Len(up_remote.ops) :
                ~WrapperUnderRoot(up_remote.ops[i].path, top)

\* the mode upload_zip or upload_tar hands to set_times_and_mode for entry e
EntryMode(e) ==
    IF up_family = "zip" THEN detect_zip_unix_mode(up_archive[e].external_attr).mode
    ELSE OrNone(up_archive[e].mode)

\* C15: a failed utime or chmod does not fail the run (only a failed open of a
\* file does, and the loop goes on to the next entry otherwise), and after a
\* failed utime the chmod of the same entry is still requested whenever the
\* entry carries a mode.
C15_MetadataBestEffort ==
    LET ops == up_remote.ops
    IN  /\ up_pc = "failed" =>
              ops # <<>> /\ ops[Len(ops)].op = "open" /\ ~ops[Len(ops)].ok
        /\ \A i \in 1..Len(ops) :
              (ops[i].op \in {"utime", "chmod"} /\ ~ops[i].ok) => up_i > ops[i].entry
        /\ \A i \in 1..Len(ops) :
              (ops[i].op = "utime" /\ ~ops[i].ok /\ EntryMode(ops[i].entry) # NoValue) =>
                  /\ i < Len(ops)
                  /\ ops[i + 1].op = "chmod" /\ ops[i + 1].path = ops[i].path
                  /\ ops[i + 1].entry = ops[i].entry

\* C15 witness: utime and chmod both failed for the first entry, and the second
\* entry's file was written all the same
C15_Witness ==
    LET ops == up_remote.ops
    IN  /\ up_pc = "done"
        /\ \E i \in 1..Len(ops) : ops[i].op = "utime" /\ ~ops[i].ok /\ ops[i].entry = 1
        /\ \E i \in 1..Len(ops) : ops[i].op = "chmod" /\ ~ops[i].ok /\ ops[i].entry = 1
        /\ \E i \in 1..Len(ops) : ops[i].op = "open" /\ ops[i].ok /\ ops[i].entry = 2

\* the symlink requests that failed after the node at the destination had
\* been removed for the same entry
FailedLinksAfterRemoval ==
    {i \in 1..Len(up_remote.ops) :
        /\ up_remote.ops[i].op = "symlink" /\ ~up_remote.ops[i].ok
        /\ \E j \in 1..(i - 1) :
              /\ up_remote.ops[j].op = "remove" /\ up_remote.ops[j].ok
              /\ up_remote.ops[j].entry = up_remote.ops[i].entry}

\* C13: when the symlink request of an entry fails after the node at the
\* destination was removed, a regular file is written at that path for the same
\* entry, so the destination is not left without a node, and the run goes on.
C13_SymlinkFallsBackToFile ==
    \A i \in FailedLinksAfterRemoval :
        /\ \E k \in (i + 1)..Len(up_remote.ops) :
              /\ up_remote.ops[k].op = "open" /\ up_remote.ops[k].ok
              /\ up_remote.ops[k].entry = up_remote.ops[i].entry
              /\ up_remote.ops[k].path = up_remote.ops[i].path
        /\ up_pc # "failed"

(***************************************************************************)
(* The remote tree of a pull. A tree maps each existing absolute path to   *)
(* its node: a directory, a regular file, a symlink (with its target) or   *)
(* another kind of node.                                                   *)
(***************************************************************************)
Node(kind, target) == [kind |-> kind, target |-> target]

\* the path a request for the segments reaches, following symlinks component
\* by component; <<>> when a component does not exist
RECURSIVE FollowPath(_, _, _)
FollowPath(tree, cur, segs) ==
    IF segs = <<>> THEN cur
    ELSE LET next == IF cur = <<SLASH>> THEN cur \o Head(segs)
                     ELSE cur \o <<SLASH>> \o Head(segs)
         IN  IF next \notin DOMAIN tree THEN <<>>
             ELSE IF tree[next].kind = "lnk"
             THEN LET real == FollowPath(tree, <<SLASH>>,
                                         PurePosixPath(tree[next].target).segs)
                  IN  IF real = <<>> THEN <<>> ELSE FollowPath(tree, real, Tail(segs))
             ELSE FollowPath(tree, next, Tail(segs))

RealPath(tree, p) == FollowPath(tree, <<SLASH>>, PurePosixPath(p).segs)

\* sftp.stat(p): the kind of the node reached, "missing" when the request fails
StatKind(tree, p) ==
    IF RealPath(tree, p) = <<>> THEN "missing" ELSE tree[RealPath(tree, p)].kind

\* the names sftp.listdir_attr(top) returns (in no particular order)
ListedNames(tree, top) ==
    LET real == RealPath(tree, top)
        prefix == IF real = <<SLASH>> THEN real ELSE real \o <<SLASH>>
    IN  {Drop(x, Len(prefix)) :
            x \in {y \in DOMAIN tree :
                      /\ y # real
                      /\ StartsWith(y, prefix)
                      /\ PathStr(PathParent(PurePosixPath(y))) = real}}

\* str(PurePosixPath(top) / name)
ChildPath(top, name) == PathStr(PathJoin(PurePosixPath(top), PurePosixPath(name)))

\* the orders in which a listing may return the names
Orders(names) ==
    {o \in [1..Cardinality(names) -> names] :
        \A i, j \in 1..Cardinality(names) : i # j => o[i] # o[j]}

(***************************************************************************)
(* sorted(): strings compare character by character by code point          *)
(***************************************************************************)
CharCode ==
    (DOT :> 46) @@ (SLASH :> 47) @@ ("a" :> 97) @@ ("b" :> 98) @@ ("f" :> 102)
    @@ ("k" :> 107) @@ ("l" :> 108) @@ ("m" :> 109) @@ ("n" :> 110)
    @@ ("q" :> 113) @@ ("r" :> 114) @@ ("s" :> 115) @@ ("x" :> 120)
    @@ ("z" :> 122)

RECURSIVE StrLess(_, _)
StrLess(s, t) ==
    IF t = <<>> THEN FALSE
    ELSE IF s = <<>> THEN TRUE
    ELSE IF s[1] = t[1] THEN StrLess(Tail(s), Tail(t))
    ELSE CharCode[s[1]] < CharCode[t[1]]

RECURSIVE InsertSorted(_, _)
InsertSorted(sorted, x) ==
    IF sorted = <<>> THEN <<x>>
    ELSE IF StrLess(x, Head(sorted)) THEN <<x>> \o sorted
    ELSE <<Head(sorted)>> \o InsertSorted(Tail(sorted), x)

RECURSIVE Sorted(_)
Sorted(names) ==
    IF names = <<>> THEN <<>>
    ELSE InsertSorted(Sorted(SubSeq(names, 1, Len(names) - 1)), names[Len(names)])

(***************************************************************************)
(* sftp_walk                                                               *)
(***************************************************************************)
\* the loop over one listing, in the order the listing came: the names taken
\* as directories, those taken as files, and the paths stat-ed on the way
RECURSIVE Classify(_, _, _, _)
Classify(tree, top, listing, acc) ==
    IF listing = <<>> THEN acc
    ELSE LET name == Head(listing)
             path == ChildPath(top, name)
             kind == tree[ChildPath(RealPath(tree, top), name)].kind
             st == StatKind(tree, path)
             acc1 ==
                 IF kind = "dir"
                 THEN IF name \notin {<<DOT>>, <<DOT, DOT>>}
                      THEN [acc EXCEPT !.dirs = Append(@, name)] ELSE acc
                 ELSE IF kind = "reg" THEN [acc EXCEPT !.files = Append(@, name)]
                 ELSE IF kind = "lnk"
                 THEN LET a == [acc EXCEPT !.stats = Append(@, path)]
                      IN  IF st = "reg" THEN [a EXCEPT !.files = Append(@, name)]
                          ELSE IF st = "dir" THEN [a EXCEPT !.dirs = Append(@, name)]
                          ELSE a
                 ELSE acc
         IN  Classify(tree, top, Tail(listing), acc1)

\* for d in dirs: the list as collected, not the sorted copy that was yielded
RecursionOrder(dirs) == dirs

Frame(top) == [top |-> top, entered |-> FALSE, dirs |-> <<>>, i |-> 1]

NewWalk(top) ==
    [stack |-> <<Frame(top)>>, out |-> <<>>, status |-> "running",
     listed |-> <<>>, stats |-> <<>>]

Pop(W) ==
    LET rest == SubSeq(W.stack, 1, Len(W.stack) - 1)
    IN  [W EXCEPT !.stack = rest,
                  !.status = IF rest = <<>> THEN "done" ELSE "running"]

(***************************************************************************)
(* Walks of a remote tree. The remote side refuses a path of more than     *)
(* MaxDepth segments with a failure that is not "no such file".            *)
(***************************************************************************)
MaxDepth == 3

PullRoot == <<SLASH, "r">>

P1(a) == PullRoot \o <<SLASH>> \o a
P2(a, b) == P1(a) \o <<SLASH>> \o b

Dir == Node("dir", <<>>)
Reg == Node("reg", <<>>)
\* a directory the account may not read: listing it is answered with
\* "permission denied"
Locked == Node("dir", <<"EACCES">>)

TreeOf(nodes) == (<<SLASH>> :> Dir) @@ (PullRoot :> Dir) @@ nodes

\* two subdirectories and two files whose names differ by one trailing character
TreePlain ==
    TreeOf((P1(<<"b">>) :> Dir) @@ (P1(<<"a">>) :> Dir)
           @@ (P2(<<"a">>, <<"f">>) :> Reg)
           @@ (P1(<<"x", DOT, "l">>) :> Reg)
           @@ (P1(<<"x", DOT, "l", "x">>) :> Reg))

\* a symlink to a regular file, a broken symlink, a node that is neither
TreeFileLink ==
    TreeOf((P1(<<"a">>) :> Dir) @@ (P2(<<"a">>, <<"f">>) :> Reg)
           @@ (P1(<<"m", DOT, "l">>) :> Node("lnk", P2(<<"a">>, <<"f">>)))
           @@ (P1(<<"n">>) :> Node("lnk", P1(<<"z">>)))
           @@ (P1(<<"z", "z">>) :> Node("fifo", <<>>)))

\* a symlink to a directory that is its own ancestor
TreeLoop ==
    TreeOf((P1(<<"a">>) :> Dir) @@ (P2(<<"a">>, <<"f">>) :> Reg)
           @@ (P1(<<"k">>) :> Node("lnk", PullRoot)))

\* the pulled root does not exist
TreeMissing == (<<SLASH>> :> Dir)

\* an unreadable directory next to a readable one
TreeLocked ==
    TreeOf((P1(<<"a">>) :> Locked) @@ (P1(<<"b">>) :> Dir)
           @@ (P2(<<"b">>, <<"f">>) :> Reg))

Trees == {TreePlain, TreeFileLink, TreeLoop, TreeMissing, TreeLocked}

TooDeep(p) == Len(PurePosixPath(p).segs) > MaxDepth

\* listdir_attr(p) fails with an error other than "no such file"
Refused(tree, p) ==
    \/ TooDeep(p)
    \/ RealPath(tree, p) # <<>> /\ tree[RealPath(tree, p)] = Locked

WalkIdle ==
    /\ wk_tree = TreeMissing
    /\ wk = [w \in {1, 2} |-> [NewWalk(PullRoot) EXCEPT !.status = "idle"]]

WalkInit ==
    /\ wk_tree \in Trees
    /\ wk = [w \in {1, 2} |-> NewWalk(PullRoot)]

TopFrame(w) == wk[w].stack[Len(wk[w].stack)]

SetTop(W, f) == [W EXCEPT !.stack[Len(W.stack)] = f]

\* sftp.listdir_attr(top) and the loop over what it returned, up to the yield
WalkList(w) ==
    /\ wk[w].status = "running"
    /\ ~TopFrame(w).entered
    /\ LET top == TopFrame(w).top
           W == [wk[w] EXCEPT !.listed = Append(@, top)]
       IN  \/ /\ Refused(wk_tree, top)
              /\ wk' = [wk EXCEPT ![w] = [W EXCEPT !.stack = <<>>, !.status = "raised"]]
           \/ /\ ~Refused(wk_tree, top)
              /\ StatKind(wk_tree, top) # "dir"
              /\ wk' = [wk EXCEPT ![w] = Pop(W)]
           \/ /\ ~Refused(wk_tree, top)
              /\ StatKind(wk_tree, top) = "dir"
              /\ \E listing \in Orders(ListedNames(wk_tree, top)) :
                    LET c == Classify(wk_tree, top, listing,
                                      [dirs |-> <<>>, files |-> <<>>, stats |-> <<>>])
                        f == [TopFrame(w) EXCEPT !.entered = TRUE,
                                                 !.dirs = RecursionOrder(c.dirs)]
                    IN  wk' = [wk EXCEPT ![w] =
                                  [SetTop(W, f) EXCEPT
                                      !.out = Append(@, [top |-> top,
                                                         dirs |-> Sorted(c.dirs),
                                                         files |-> Sorted(c.files)]),
                                      !.stats = @ \o c.stats]]
    /\ UNCHANGED <<wk_tree, exceptWalk>>

\* for d in dirs: yield from sftp_walk(sftp, top / d)
WalkDescend(w) ==
    /\ wk[w].status = "running"
    /\ TopFrame(w).entered
    /\ TopFrame(w).i <= Len(TopFrame(w).dirs)
    /\ LET f == TopFrame(w)
           W == SetTop(wk[w], [f EXCEPT !.i = @ + 1])
       IN  wk' = [wk EXCEPT ![w] =
                     [W EXCEPT !.stack = Append(@, Frame(ChildPath(f.top, f.dirs[f.i])))]]
    /\ UNCHANGED <<wk_tree, exceptWalk>>

\* the loop over dirs is exhausted: the generator of this directory returns
WalkReturn(w) ==
    /\ wk[w].status = "running"
    /\ TopFrame(w).entered
    /\ TopFrame(w).i > Len(TopFrame(w).dirs)
    /\ wk' = [wk EXCEPT ![w] = Pop(wk[w])]
    /\ UNCHANGED <<wk_tree, exceptWalk>>

\* the tree is walked twice, one walk after the other
Turn(w) == w = 1 \/ wk[1].status # "running"

WalkNext ==
    \/ \E w \in {1, 2} : Turn(w) /\ WalkList(w)
    \/ \E w \in {1, 2} : Turn(w) /\ WalkDescend(w)
    \/ \E w \in {1, 2} : Turn(w) /\ WalkReturn(w)

(***************************************************************************)
(* Claims about sftp_walk                                                  *)
(***************************************************************************)
IsSorted(names) ==
    \A i, j \in 1..Len(names) : i < j => ~StrLess(names[j], names[i])

\* C4: every yielded triple has both name lists sorted, and two completed walks
\* of the unchanged tree yield the same sequence of triples, whatever order the
\* listings came in.
C4_WalkDeterministic ==
    /\ \A w \in {1, 2} : \A i \in 1..Len(wk[w].out) :
          IsSorted(wk[w].out[i].dirs) /\ IsSorted(wk[w].out[i].files)
    /\ (wk[1].status = "done" /\ wk[2].status = "done") => wk[1].out = wk[2].out

\* the path of k segments that p starts with
PrefixPath(p, k) == <<SLASH>> \o JoinSlash(SubSeq(PurePosixPath(p).segs, 1, k))

\* some component of p is a symlink
ThroughSymlink(tree, p) ==
    \E k \in 1..Len(PurePosixPath(p).segs) :
        /\ PrefixPath(p, k) \in DOMAIN tree
        /\ tree[PrefixPath(p, k)].kind = "lnk"

\* C5: the walker requests no listing of, and yields no triple for, a directory
\* reached through a symlink (so that a symlink to an ancestor cannot keep the
\* walk going).
C5_SymlinkNotTraversed ==
    \A w \in {1, 2} :
        /\ \A i \in 1..Len(wk[w].listed) : ~ThroughSymlink(wk_tree, wk[w].listed[i])
        /\ \A i \in 1..Len(wk[w].out) : ~ThroughSymlink(wk_tree, wk[w].out[i].top)

\* the directories below the pulled root that can be listed, every ancestor
\* being a directory that can be listed too
RECURSIVE Listable(_, _)
Listable(tree, p) ==
    /\ p \in DOMAIN tree /\ tree[p] = Dir /\ StartsWith(p, PullRoot)
    /\ p = PullRoot \/ Listable(tree, PathStr(PathParent(PurePosixPath(p))))

YieldedTops(w) == {wk[w].out[i].top : i \in 1..Len(wk[w].out)}

\* C11: a failure while listing a directory, missing or any other, raises no
\* error out of the walk and costs only that directory: a walk that has ended
\* has yielded the triple of every directory that can be listed.
C11_ListingFailureAbsorbed ==
    \A w \in {1, 2} :
        /\ wk[w].status # "raised"
        /\ wk[w].status = "done" =>
              \A p \in DOMAIN wk_tree : Listable(wk_tree, p) => p \in YieldedTops(w)

(***************************************************************************)
(* The pull loop of main: it takes the triples of one walk as they are     *)
(* yielded and adds every file that no exclusion suffix matches.           *)
(***************************************************************************)
\* a faulty variant of IsExcluded: the suffix may occur anywhere in the path
IsExcludedAnywhere(remote_file, exclude) ==
    \E i \in 1..Len(exclude) : \E k \in 0..Len(remote_file) :
        StartsWith(Drop(remote_file, k), exclude[i])

\* args.exclude and any(remote_file.endswith(suf) for suf in args.exclude)
IsExcluded(remote_file, exclude) ==
    exclude # <<>> /\ \E i \in 1..Len(exclude) : EndsWith(remote_file, exclude[i])

\* str(PurePosixPath(dirpath).relative_to(remote_root))
RelativeTo(dirpath, remote_root) ==
    PathStr([abs |-> FALSE,
             segs |-> Drop(PurePosixPath(dirpath).segs,
                           Len(PurePosixPath(remote_root).segs))])

\* f"{rel_dir}/{name}" if rel_dir else name
ArcName(rel_dir, name) == IF rel_dir # <<>> THEN rel_dir \o <<SLASH>> \o name ELSE name

Mask16 == 65535      \* 0xFFFF

\* the st_mode sftp.stat reports for a regular file of the tree
FileMode == S_IFREG + 420

\* a faulty variant of PackMode: only the rwx bits are stored
PackModeRwxOnly(st_mode) == ShiftLeft16(BitAnd(st_mode, 511))

\* zi.external_attr = (st.st_mode & 0xFFFF) << 16
PackMode(st_mode) == ShiftLeft16(BitAnd(st_mode, Mask16))

ExcludeLists ==
    { <<>>,
      <<(<<DOT, "l">>)>>,
      <<(<<"a", SLASH, "f">>), (<<DOT, "l">>)>> }

PullIdle ==
    /\ pl_pc = "idle" /\ pl_exclude = <<>> /\ pl_t = 0 /\ pl_f = 1
    /\ pl_zip = <<>> /\ pl_ops = <<>>

PullInit ==
    /\ pl_pc = "loop" /\ pl_exclude \in ExcludeLists /\ pl_t = 0 /\ pl_f = 1
    /\ pl_zip = <<>> /\ pl_ops = <<>>

\* the files of the triple the loop is at
CurrentFiles == IF pl_t = 0 THEN <<>> ELSE wk[1].out[pl_t].files

\* the loop body is through with the triple it holds and asks for the next
AwaitsTriple == pl_pc = "loop" /\ pl_f > Len(CurrentFiles)

\* the generator runs only while the loop waits for it
PullWalkList == AwaitsTriple /\ pl_t = Len(wk[1].out) /\ WalkList(1)
PullWalkDescend == AwaitsTriple /\ pl_t = Len(wk[1].out) /\ WalkDescend(1)
PullWalkReturn == AwaitsTriple /\ pl_t = Len(wk[1].out) /\ WalkReturn(1)

\* for dirpath, dirnames, filenames in sftp_walk(...): the next triple arrives
PullTakeTriple ==
    /\ AwaitsTriple /\ pl_t < Len(wk[1].out)
    /\ pl_t' = pl_t + 1 /\ pl_f' = 1
    /\ UNCHANGED <<pl_pc, pl_exclude, pl_zip, pl_ops, walkVars, exceptPull, resVars>>

\* one file name of the triple: skipped when excluded, else stat-ed by main and
\* added by add_file_to_zip_from_sftp (stat, open for reading, one entry)
PullFile ==
    /\ pl_pc = "loop" /\ pl_f <= Len(CurrentFiles)
    /\ LET dirpath == wk[1].out[pl_t].top
           name == CurrentFiles[pl_f]
           rel_dir == RelativeTo(dirpath, PullRoot)
           remote_file == ChildPath(dirpath, name)
           arcname == ArcName(rel_dir, name)
       IN  IF IsExcluded(remote_file, pl_exclude)
           THEN UNCHANGED <<pl_zip, pl_ops>>
           ELSE /\ pl_ops' = pl_ops \o <<[op |-> "stat", path |-> remote_file],
                                         [op |-> "stat", path |-> remote_file],
                                         [op |-> "open", path |-> remote_file]>>
                /\ pl_zip' = Append(pl_zip, [arcname |-> arcname,
                                             source |-> remote_file,
                                             external_attr |-> PackMode(FileMode)])
    /\ pl_f' = pl_f + 1
    /\ UNCHANGED <<pl_pc, pl_exclude, pl_t, walkVars, exceptPull, resVars>>

\* the walk is over: the with block of the archive is left, success is
\* reported, and the finally block closes the client
PullFinish ==
    /\ AwaitsTriple /\ pl_t = Len(wk[1].out) /\ wk[1].status = "done"
    /\ pl_pc' = "done"
    /\ rs_archive' = LeaveWith(rs_archive)
    /\ rs_client' = "closed"
    /\ UNCHANGED <<pl_exclude, pl_t, pl_f, pl_zip, pl_ops, walkVars, exceptPull>>

\* an error left the walk: it leaves the with block and main as well, through
\* the finally block
PullFail ==
    /\ AwaitsTriple /\ pl_t = Len(wk[1].out) /\ wk[1].status = "raised"
    /\ pl_pc' = "failed"
    /\ rs_archive' = LeaveWith(rs_archive)
    /\ rs_client' = "closed"
    /\ UNCHANGED <<pl_exclude, pl_t, pl_f, pl_zip, pl_ops, walkVars, exceptPull>>

PullNext ==
    \/ PullWalkList \/ PullWalkDescend \/ PullWalkReturn
    \/ PullTakeTriple \/ PullFile \/ PullFinish \/ PullFail

(***************************************************************************)
(* Claims about the pull loop                                              *)
(***************************************************************************)
FilesOf(triple, upto) ==
    {ChildPath(triple.top, triple.files[k]) : k \in 1..upto}

\* the files the walk has yielded, and those the loop body has been run for
YieldedFiles ==
    UNION {FilesOf(wk[1].out[t], Len(wk[1].out[t].files)) : t \in 1..Len(wk[1].out)}

ProcessedFiles ==
    UNION {FilesOf(wk[1].out[t],
                   IF t < pl_t THEN Len(wk[1].out[t].files) ELSE pl_f - 1) :
           t \in 1..pl_t}

EntryCount(p) == Cardinality({i \in 1..Len(pl_zip) : pl_zip[i].source = p})

\* the path ends with one of the exclusion suffixes
MatchesSuffix(p) == \E i \in 1..Len(pl_exclude) : EndsWith(p, pl_exclude[i])

\* a file gets one entry unless a suffix matches its path, then none; only
\* yielded files get entries; a finished run has gone through every yielded file
EntriesAreTheIncludedFiles ==
    /\ \A p \in ProcessedFiles : EntryCount(p) = IF MatchesSuffix(p) THEN 0 ELSE 1
    /\ \A i \in 1..Len(pl_zip) :
          /\ pl_zip[i].source \in ProcessedFiles
          /\ StatKind(wk_tree, pl_zip[i].source) = "reg"
    /\ pl_pc = "done" => ProcessedFiles = YieldedFiles

\* C6 (as stated): ... and no stat or read request at all is made for a file
\* that a suffix excludes.
C6_AsStated ==
    /\ EntriesAreTheIncludedFiles
    /\ \A i \in 1..Len(pl_ops) : ~MatchesSuffix(pl_ops[i].path)
    /\ \A i \in 1..Len(wk[1].stats) :
          StatKind(wk_tree, wk[1].stats[i]) = "reg" => ~MatchesSuffix(wk[1].stats[i])

\* C6 (amended): a yielded file gets an archive entry if and only if its full
\* remote path ends with none of the exclusion suffixes, exactly one entry then;
\* directories get none; and the pull loop and add_file_to_zip_from_sftp make no
\* stat or read request for an excluded file (the walker has stat-ed it once
\* before yielding it when it is a symlink).
C6_ExclusionExact ==
    /\ EntriesAreTheIncludedFiles
    /\ \A i \in 1..Len(pl_ops) : ~MatchesSuffix(pl_ops[i].path)

\* C6 witness: a finished pull with suffix ".l" that kept x.lx and left out x.l
C6_Witness ==
    /\ pl_pc = "done"
    /\ pl_exclude = <<(<<DOT, "l">>)>>
    /\ EntryCount(P1(<<"x", DOT, "l", "x">>)) = 1
    /\ P1(<<"x", DOT, "l">>) \in ProcessedFiles
    /\ EntryCount(P1(<<"x", DOT, "l">>)) = 0

\* C7: every entry name is the file's path relative to the pulled root, with no
\* leading "/" and no leading "./".
C7_RelativeEntryNames ==
    \A i \in 1..Len(pl_zip) :
        /\ ~StartsWith(pl_zip[i].arcname, <<SLASH>>)
        /\ ~StartsWith(pl_zip[i].arcname, <<DOT, SLASH>>)
        /\ pl_zip[i].arcname = Drop(pl_zip[i].source, Len(PullRoot) + 1)

(***************************************************************************)
(* The permission round trip: a regular file's st_mode is stored by        *)
(* add_file_to_zip_from_sftp, decoded by detect_zip_unix_mode in           *)
(* upload_zip and handed to set_times_and_mode.                            *)
(***************************************************************************)
\* every st_mode of a regular file: the type, any permission bits, and with or
\* without a bit above the lower 16
RegularModes == {S_IFREG + perm + high : perm \in 0..PermMask, high \in {0, Mask16 + 1}}

NoDetection == [mode |-> NoValue, is_symlink |-> FALSE]

ModeIdle ==
    /\ md_pc = "idle" /\ md_st_mode = 0 /\ md_attr = ShiftLeft16(0)
    /\ md_detected = NoDetection /\ md_ops = <<>>

ModeInit ==
    /\ md_pc = "captured" /\ md_st_mode \in RegularModes /\ md_attr = ShiftLeft16(0)
    /\ md_detected = NoDetection /\ md_ops = <<>>

\* pull: add_file_to_zip_from_sftp stores the mode in the entry
ModeStore ==
    /\ md_pc = "captured"
    /\ md_attr' = PackMode(md_st_mode)
    /\ md_pc' = "stored"
    /\ UNCHANGED <<md_st_mode, md_detected, md_ops, exceptMode>>

\* push: upload_zip decodes the entry
ModeDetect ==
    /\ md_pc = "stored"
    /\ md_detected' = detect_zip_unix_mode(md_attr)
    /\ md_pc' = "detected"
    /\ UNCHANGED <<md_st_mode, md_attr, md_ops, exceptMode>>

\* push: set_times_and_mode on the file just written
ModeRestore ==
    /\ md_pc = "detected"
    /\ md_ops' = set_times_and_mode(InitialRemote, BaseRoot, NoValue,
                                    md_detected.mode, 1).ops
    /\ md_pc' = "restored"
    /\ UNCHANGED <<md_st_mode, md_attr, md_detected, exceptMode>>

ModeNext == ModeStore \/ ModeDetect \/ ModeRestore

(***************************************************************************)
(* Claims about the permission round trip                                  *)
(***************************************************************************)
\* C8: for every regular-file st_mode, the stored value decodes to exactly the
\* permission bits st_mode & 0o7777, never to "absent" and never to a symlink,
\* and those bits are the ones passed to chmod.
C8_PermissionRoundTrip ==
    /\ md_pc \in {"detected", "restored"} =>
          /\ md_detected.mode # NoValue
          /\ md_detected.mode = md_st_mode % 4096
          /\ ~md_detected.is_symlink
    /\ md_pc = "restored" =>
          /\ \E i \in 1..Len(md_ops) : md_ops[i].op = "chmod"
          /\ \A i \in 1..Len(md_ops) :
                md_ops[i].op = "chmod" => md_ops[i].bits = md_st_mode % 4096

\* C8 witness: a setuid mode 0o4755, with a bit above the stored 16, restored
C8_Witness ==
    /\ md_pc = "restored"
    /\ md_st_mode = S_IFREG + 2541 + Mask16 + 1
    /\ \E i \in 1..Len(md_ops) : md_ops[i].op = "chmod" /\ md_ops[i].bits = 2541

(***************************************************************************)
(* push: main and run_sql_via_psql                                         *)
(***************************************************************************)
\* a configuration value: the key is absent (get() answers None) or a string
None == [some |-> FALSE, text |-> <<>>]
Some(t) == [some |-> TRUE, text |-> t]

\* str(v)
PyStr(v) == IF v.some THEN v.text ELSE <<"N", "o", "n", "e">>

\* fnmatch.fnmatch(normalize_arcpath(n), "*.sql") with the default sql_glob
SqlSuffix == <<DOT, "s", "q", "l">>
MatchesSqlGlob(n) == EndsWith(normalize_arcpath(n), SqlSuffix)

\* names.sort(); names[-1], None when nothing matched
SqlMemberIndexes(archive) == {i \in 1..Len(archive) : MatchesSqlGlob(archive[i].name)}
SqlMemberName(archive) ==
    LET names == SelectSeq(EntryNames(archive), MatchesSqlGlob)
    IN  IF names = <<>> THEN <<>> ELSE Sorted(names)[Len(names)]

\* zf.open(name) / tf.getmember(name): the last member of that name
SqlMember(archive) ==
    LET name == SqlMemberName(archive)
        last == CHOOSE i \in SqlMemberIndexes(archive) :
                    /\ archive[i].name = name
                    /\ \A j \in SqlMemberIndexes(archive) :
                          archive[j].name = name => j <= i
    IN  archive[last]

\* a faulty variant of ExitFailed: no exit status counts as a failure
ExitFailedNever(code) == FALSE

\* a faulty variant of ExitFailed: only positive codes count as failures
ExitFailedPositive(code) == code > 0

\* if code != 0
ExitFailed(code) == code # 0

\* bytes.decode("utf-8", "ignore"): undecodable bytes are dropped
BadByte == "\\xff"
Decode(bytes) == SelectSeq(bytes, LAMBDA b : b # BadByte)

Raised(exc, text) == [exc |-> exc, text |-> text]
NoError == Raised("none", <<>>)

Command(prog, user, name, running, code, stderr) ==
    [prog |-> prog, user |-> user, name |-> name, running |-> running,
     code |-> code, stderr |-> stderr]

MaxStderr == 1

\* recv_exit_status(): 0, a failure status, or -1 when the channel closed
\* without reporting one
ExitCodes == {0, 1, -1}
StderrBytes == Strs({"E", BadByte}, MaxStderr)

SqlChunks == <<"s1", "s2">>
PushZipEntries ==
    { ZipInfo(<<"a">>, S_IFREG + 420, <<"y">>),
      ZipInfo(<<"q", DOT, "s", "q", "l">>, S_IFREG + 420, SqlChunks) }
PushTarEntries ==
    { TarInfo(<<"a">>, "REGTYPE", 420, 5, <<"y">>),
      TarInfo(<<"q", DOT, "s", "q", "l">>, "REGTYPE", 420, 5, SqlChunks) }

ConfigValues == {None, Some(<<>>), Some(<<"d", "b">>)}
DbConfigs == [enabled : BOOLEAN, db_name : ConfigValues, db_user : ConfigValues]

PushIdle ==
    /\ ps_pc = "idle" /\ ps_cfg = [enabled |-> FALSE, db_name |-> None, db_user |-> None]
    /\ ps_cmds = <<>> /\ ps_sent = 0 /\ ps_stdin_closed = FALSE
    /\ ps_error = NoError /\ ps_success = FALSE /\ ps_closed = FALSE

\* main up to the creation of the client: the configuration is loaded, the
\* archive exists, the routes are built
PushInit ==
    /\ ps_pc = "start" /\ ps_cfg \in DbConfigs
    /\ ps_cmds = <<>> /\ ps_sent = 0 /\ ps_stdin_closed = FALSE
    /\ ps_error = NoError /\ ps_success = FALSE /\ ps_closed = FALSE
    /\ up_pc = "idle"
    /\ up_family \in {"zip", "tar", "other"}
    /\ up_archive \in IF up_family = "zip" THEN Archives(PushZipEntries)
                      ELSE IF up_family = "tar" THEN Archives(PushTarEntries)
                      ELSE {<<>>}
    /\ up_strip = FALSE
    /\ up_routes = build_routes(<<>>)
    /\ up_i = 1
    /\ up_remote = InitialRemote

\* an exception leaves the try block of main
Raise(exc, text) ==
    /\ ps_pc' = "raising"
    /\ ps_error' = Raised(exc, text)

\* client.connect and client.open_sftp
PushConnect ==
    /\ ps_pc = "start"
    /\ \E ok \in BOOLEAN :
          IF ok THEN ps_pc' = "connected" /\ UNCHANGED ps_error
          ELSE Raise("SSHException", <<>>)
    /\ UNCHANGED <<ps_cfg, ps_cmds, ps_sent, ps_stdin_closed, ps_success,
                   ps_closed, exceptPush>>
    /\ UNCHANGED resVars

\* sftp.normalize(remote_dir), ensure_remote_dirs, and the choice of the
\* uploader by the archive's suffix: the uploader opens the archive, and
\* sys.exit(2) leaves main for any other suffix
PushBase ==
    /\ ps_pc = "connected"
    /\ up_remote' = ensure_remote_dirs(up_remote, RemoteResolve(BaseRoot), 0)
    /\ IF up_family \in {"zip", "tar"}
       THEN /\ up_pc' = "upload" /\ ps_pc' = "uploading"
            /\ rs_archive' = rs_archive + 1
            /\ UNCHANGED ps_error
       ELSE /\ Raise("SystemExit", <<>>)
            /\ UNCHANGED <<up_pc, rs_archive>>
    /\ UNCHANGED <<up_family, up_archive, up_strip, up_routes, up_i>>
    /\ UNCHANGED <<ps_cfg, ps_cmds, ps_sent, ps_stdin_closed, ps_success,
                   ps_closed, rs_client>>
    /\ UNCHANGED <<routeVars, walkVars, pullVars, modeVars, dumpVars>>

\* the uploader has returned, or an error left it
PushUploaded ==
    /\ ps_pc = "uploading" /\ up_pc \in {"done", "failed"}
    /\ IF up_pc = "done" THEN ps_pc' = "uploaded" /\ UNCHANGED ps_error
       ELSE Raise("IOError", <<>>)
    /\ UNCHANGED <<ps_cfg, ps_cmds, ps_sent, ps_stdin_closed, ps_success,
                   ps_closed, exceptPush>>
    /\ UNCHANGED resVars

\* db_cfg.get("enabled") holds: the SQL member is looked up in the archive
PushFindSql ==
    /\ ps_pc = "uploaded" /\ ps_cfg.enabled
    /\ IF SqlMemberName(up_archive) = <<>> THEN Raise("FileNotFoundError", <<>>)
       ELSE ps_pc' = "run_sql" /\ UNCHANGED ps_error
    /\ UNCHANGED <<ps_cfg, ps_cmds, ps_sent, ps_stdin_closed, ps_success,
                   ps_closed, exceptPush>>
    /\ rs_archive' = IF SqlMemberName(up_archive) = <<>>
                     THEN LeaveWith(rs_archive + 1) ELSE rs_archive + 1
    /\ UNCHANGED rs_client

\* run_sql_via_psql: the configuration is read and checked
PushCheckConfig ==
    /\ ps_pc = "run_sql"
    /\ IF PyStr(ps_cfg.db_name) = <<>> \/ PyStr(ps_cfg.db_user) = <<>>
       THEN Raise("ValueError", <<>>)
       ELSE ps_pc' = "dropdb" /\ UNCHANGED ps_error
    /\ UNCHANGED <<ps_cfg, ps_cmds, ps_sent, ps_stdin_closed, ps_success,
                   ps_closed, exceptPush>>
    /\ rs_archive' = IF PyStr(ps_cfg.db_name) = <<>> \/ PyStr(ps_cfg.db_user) = <<>>
                     THEN LeaveWith(rs_archive) ELSE rs_archive
    /\ UNCHANGED rs_client

\* a command is executed and its exit status awaited; a failure status raises
\* with what stderr held
RunToEnd(prog, next) ==
    \E code \in ExitCodes, stderr \in StderrBytes :
        /\ ps_cmds' = Append(ps_cmds,
                             Command(prog, PyStr(ps_cfg.db_user), PyStr(ps_cfg.db_name),
                                     FALSE, code,
                                     IF ExitFailed(code) THEN stderr ELSE <<>>))
        /\ IF ExitFailed(code) THEN Raise("RuntimeError", Decode(stderr))
           ELSE ps_pc' = next /\ UNCHANGED ps_error
        /\ UNCHANGED <<ps_cfg, ps_sent, ps_stdin_closed, ps_success, ps_closed,
                       exceptPush>>
        /\ rs_archive' = IF ExitFailed(code) THEN LeaveWith(rs_archive)
                         ELSE rs_archive
        /\ UNCHANGED rs_client

PushDropdb == ps_pc = "dropdb" /\ RunToEnd("dropdb", "createdb")

PushCreatedb == ps_pc = "createdb" /\ RunToEnd("createdb", "psql")

\* ssh.exec_command of the importer
PushPsqlStart ==
    /\ ps_pc = "psql"
    /\ ps_cmds' = Append(ps_cmds,
                         Command("psql", PyStr(ps_cfg.db_user), PyStr(ps_cfg.db_name),
                                 TRUE, 0, <<>>))
    /\ ps_pc' = "feeding"
    /\ UNCHANGED <<ps_cfg, ps_sent, ps_stdin_closed, ps_error, ps_success,
                   ps_closed, exceptPush>>
    /\ UNCHANGED resVars

\* one round of the feed loop: a chunk is read and written, or either raises
PushFeedChunk ==
    /\ ps_pc = "feeding" /\ ps_sent < Len(SqlMember(up_archive).data)
    /\ \E ok \in BOOLEAN :
          IF ok THEN ps_sent' = ps_sent + 1 /\ UNCHANGED <<ps_pc, ps_error>>
          ELSE /\ ps_pc' = "finally" /\ ps_error' = Raised("IOError", <<>>)
               /\ UNCHANGED ps_sent
    /\ UNCHANGED <<ps_cfg, ps_cmds, ps_stdin_closed, ps_success, ps_closed,
                   exceptPush>>
    /\ UNCHANGED resVars

\* the stream is exhausted: stdin.channel.shutdown_write()
PushFeedEnd ==
    /\ ps_pc = "feeding" /\ ps_sent = Len(SqlMember(up_archive).data)
    /\ ps_stdin_closed' = TRUE
    /\ ps_pc' = "finally"
    /\ UNCHANGED <<ps_cfg, ps_cmds, ps_sent, ps_error, ps_success, ps_closed,
                   exceptPush>>
    /\ UNCHANGED resVars

\* finally: the importer's exit status arrives
PushExitStatus ==
    /\ ps_pc = "finally"
    /\ \E code \in ExitCodes, stderr \in StderrBytes :
          /\ ps_cmds' = [ps_cmds EXCEPT ![Len(ps_cmds)] =
                            Command("psql", @.user, @.name, FALSE, code,
                                    IF ExitFailed(code) THEN stderr ELSE <<>>)]
          /\ IF ExitFailed(code) THEN Raise("RuntimeError", Decode(stderr))
             ELSE IF ps_error # NoError THEN ps_pc' = "raising" /\ UNCHANGED ps_error
             ELSE ps_pc' = "restored" /\ UNCHANGED ps_error
    /\ UNCHANGED <<ps_cfg, ps_sent, ps_stdin_closed, ps_success, ps_closed,
                   exceptPush>>
    /\ rs_archive' = LeaveWith(rs_archive)
    /\ UNCHANGED rs_client

\* finally: the importer still waits for the end of its stdin, so no exit
\* status ever arrives
PushWaitForever ==
    /\ ps_pc = "finally" /\ ~ps_stdin_closed
    /\ ps_pc' = "hung"
    /\ UNCHANGED <<ps_cfg, ps_cmds, ps_sent, ps_stdin_closed, ps_error,
                   ps_success, ps_closed, exceptPush>>
    /\ UNCHANGED resVars

\* the success message and sftp.close()
PushReport ==
    /\ \/ ps_pc = "uploaded" /\ ~ps_cfg.enabled
       \/ ps_pc = "restored"
    /\ ps_success' = TRUE
    /\ ps_pc' = "closing"
    /\ UNCHANGED <<ps_cfg, ps_cmds, ps_sent, ps_stdin_closed, ps_error,
                   ps_closed, exceptPush>>
    /\ UNCHANGED resVars

\* finally: client.close(); the run ends, by return or by the exception
PushClose ==
    /\ ps_pc \in {"closing", "raising"}
    /\ ps_closed' = TRUE
    /\ ps_pc' = IF ps_pc = "closing" THEN "done" ELSE "failed"
    /\ UNCHANGED <<ps_cfg, ps_cmds, ps_sent, ps_stdin_closed, ps_error,
                   ps_success, exceptPush>>
    /\ rs_client' = "closed"
    /\ UNCHANGED rs_archive

PushNext ==
    \/ PushConnect \/ PushBase
    \/ UploadZipEntry \/ UploadTarEntry \/ UploadReturn
    \/ PushUploaded \/ PushFindSql \/ PushCheckConfig
    \/ PushDropdb \/ PushCreatedb \/ PushPsqlStart
    \/ PushFeedChunk \/ PushFeedEnd \/ PushExitStatus \/ PushWaitForever
    \/ PushReport \/ PushClose

(***************************************************************************)
(* Claims about the database restore                                       *)
(***************************************************************************)
\* the restore commands that finished with a nonzero exit status
FailedCommands ==
    {i \in 1..Len(ps_cmds) : ~ps_cmds[i].running /\ ps_cmds[i].code # 0}

\* C9: once a restore command (dropdb, createdb or the importer) has finished
\* with a nonzero exit status, a RuntimeError carrying the decoded stderr of
\* that command is on its way out of main or has ended the run, and the success
\* message has not been reported; also when the feed loop had raised before.
C9_NonzeroExitFailsThePush ==
    \A i \in FailedCommands :
        /\ ps_pc \in {"raising", "failed"}
        /\ ps_error = Raised("RuntimeError", Decode(ps_cmds[i].stderr))
        /\ ~ps_success

\* C9 witness: the feed loop raised after one chunk, the importer then ended
\* with -1 and "E" on stderr, and the run has failed with that text
C9_Witness ==
    /\ ps_pc = "failed"
    /\ Len(ps_cmds) = 3 /\ ps_cmds[3].prog = "psql" /\ ps_cmds[3].code = -1
    /\ ps_cmds[3].stderr = <<"E">>
    /\ ps_sent = 1 /\ ~ps_stdin_closed
    /\ ps_error.text = <<"E">>

\* command number i has completed with exit status 0
CompletedOk(i, prog) ==
    /\ i <= Len(ps_cmds) /\ ps_cmds[i].prog = prog
    /\ ~ps_cmds[i].running /\ ps_cmds[i].code = 0

\* C14: createdb is executed only after dropdb completed with status 0, the
\* importer is started only after createdb completed with status 0, no chunk of
\* the SQL payload is sent before the importer was started, and after a
\* nonzero status no further command is executed.
C14_RestoreStepsInOrder ==
    /\ Len(ps_cmds) <= 3
    /\ \A i \in 1..Len(ps_cmds) :
          /\ ps_cmds[i].prog = <<"dropdb", "createdb", "psql">>[i]
          /\ i > 1 => CompletedOk(i - 1, <<"dropdb", "createdb">>[i - 1])
    /\ ps_sent > 0 => Len(ps_cmds) = 3
    /\ FailedCommands \subseteq {Len(ps_cmds)}

\* C14 witness: the three steps ran in order, each with status 0, and the whole
\* payload was sent to the importer
C14_Witness ==
    /\ ps_pc = "done"
    /\ CompletedOk(1, "dropdb") /\ CompletedOk(2, "createdb") /\ CompletedOk(3, "psql")
    /\ ps_sent = Len(SqlChunks) /\ ps_stdin_closed

\* C18: the importer's stdin is half-closed before run_sql_via_psql waits for
\* the importer's exit status, on every path into the finally block, so the
\* function never waits for an importer that still waits for its input.
C18_StdinClosedBeforeWaiting ==
    /\ ps_pc = "finally" => ps_stdin_closed
    /\ ps_pc # "hung"

\* the database name or the database user is missing from the configuration
IdentifierMissing ==
    \/ ~ps_cfg.db_name.some \/ ps_cfg.db_name.text = <<>>
    \/ ~ps_cfg.db_user.some \/ ps_cfg.db_user.text = <<>>

\* C10: when the restore is enabled and the database name or user is missing,
\* no remote command is executed, no remote file or directory is read, created
\* or written, and success is not reported.
C10_ConfigFailureBeforeRemoteAction ==
    (ps_cfg.enabled /\ IdentifierMissing) =>
        /\ ps_cmds = <<>>
        /\ up_remote.ops = <<>>
        /\ ~ps_success

(***************************************************************************)
(* pull: the dump loop of run_pg_dump_into_zip. The remote pg_dump writes   *)
(* chunks to the channel, its stdout ends, its exit status is reported, the *)
(* channel is closed, in any order the transport allows.                   *)
(***************************************************************************)
MaxDumpChunks == 2

\* the channel right after exec_command
OpenChannel ==
    [buffer |-> <<>>, produced |-> 0, eof |-> FALSE, closed |-> FALSE,
     reported |-> FALSE, status |-> -1]

\* channel.exit_status_ready(): a status has arrived or the channel is closed
exit_status_ready(chan) == chan.reported \/ chan.closed

\* channel.recv() does not block: data is buffered, or the stream has ended
RecvReturns(chan) == chan.buffer # <<>> \/ chan.eof \/ chan.closed

\* a faulty variant of LeavesLoop: only a reported status ends the loop
LeavesLoopOnStatusOnly(chan) == chan.buffer = <<>> /\ chan.reported

\* if not chunk: if stdout.channel.exit_status_ready(): break
LeavesLoop(chan) == chan.buffer = <<>> /\ exit_status_ready(chan)

DumpIdle ==
    /\ dp_pc = "idle" /\ dp_chan = OpenChannel /\ dp_entry = <<>>
    /\ dp_spun = FALSE /\ dp_error = NoError

\* the command is started and the entry opened for writing
DumpInit ==
    /\ dp_pc = "loop" /\ dp_chan = OpenChannel /\ dp_entry = <<>>
    /\ dp_spun = FALSE /\ dp_error = NoError

\* the remote side: pg_dump writes one more chunk to its stdout
DumpRemoteSend ==
    /\ dp_pc # "idle" /\ ~dp_chan.eof /\ ~dp_chan.closed
    /\ dp_chan.produced < MaxDumpChunks
    /\ dp_chan' = [dp_chan EXCEPT !.produced = @ + 1,
                                  !.buffer = Append(@, dp_chan.produced + 1)]
    /\ UNCHANGED <<dp_pc, dp_entry, dp_spun, dp_error, exceptDump>>

\* the remote side: stdout ends
DumpRemoteEof ==
    /\ dp_pc # "idle" /\ ~dp_chan.eof /\ ~dp_chan.closed
    /\ dp_chan' = [dp_chan EXCEPT !.eof = TRUE]
    /\ UNCHANGED <<dp_pc, dp_entry, dp_spun, dp_error, exceptDump>>

\* the remote side: the exit status of pg_dump is reported
DumpRemoteExit ==
    /\ dp_pc # "idle" /\ ~dp_chan.reported /\ ~dp_chan.closed
    /\ \E code \in {0, 1} :
          dp_chan' = [dp_chan EXCEPT !.reported = TRUE, !.status = code]
    /\ UNCHANGED <<dp_pc, dp_entry, dp_spun, dp_error, exceptDump>>

\* the channel is closed, with or without a status having been reported
DumpRemoteClose ==
    /\ dp_pc # "idle" /\ ~dp_chan.closed
    /\ dp_chan' = [dp_chan EXCEPT !.closed = TRUE]
    /\ UNCHANGED <<dp_pc, dp_entry, dp_spun, dp_error, exceptDump>>

\* chunk = recv(...) returned data: zdst.write(chunk)
DumpWrite ==
    /\ dp_pc = "loop" /\ dp_chan.buffer # <<>>
    /\ dp_entry' = Append(dp_entry, Head(dp_chan.buffer))
    /\ dp_chan' = [dp_chan EXCEPT !.buffer = Tail(@)]
    /\ UNCHANGED <<dp_pc, dp_spun, dp_error, exceptDump>>

\* chunk = recv(...) returned nothing: break when the exit status is ready,
\* else continue with the next recv
DumpEmptyRead ==
    /\ dp_pc = "loop" /\ dp_chan.buffer = <<>> /\ RecvReturns(dp_chan)
    /\ IF LeavesLoop(dp_chan) THEN dp_pc' = "status" /\ UNCHANGED dp_spun
       ELSE dp_spun' = TRUE /\ UNCHANGED dp_pc
    /\ UNCHANGED <<dp_chan, dp_entry, dp_error, exceptDump>>

\* recv_exit_status() returns once a status has arrived or the channel is
\* closed (-1 then); a nonzero status raises with what stderr held
DumpExitStatus ==
    /\ dp_pc = "status" /\ exit_status_ready(dp_chan)
    /\ IF dp_chan.status # 0
       THEN \E stderr \in StderrBytes :
                dp_pc' = "raised" /\ dp_error' = Raised("RuntimeError", Decode(stderr))
       ELSE dp_pc' = "returned" /\ UNCHANGED dp_error
    /\ UNCHANGED <<dp_chan, dp_entry, dp_spun, exceptDump>>

DumpRemoteEnds == DumpRemoteExit \/ DumpRemoteClose

DumpNext ==
    \/ DumpRemoteSend \/ DumpRemoteEof \/ DumpRemoteExit \/ DumpRemoteClose
    \/ DumpWrite \/ DumpEmptyRead \/ DumpExitStatus

(***************************************************************************)
(* Claims about the dump loop                                              *)
(***************************************************************************)
\* the chunks the remote side has produced so far, in the order of arrival
Produced == [k \in 1..dp_chan.produced |-> k]

DumpEnded == dp_pc \in {"returned", "raised"}

\* what has been written is what has arrived and was read, in arrival order;
\* the function ends with everything written, returning exactly on status 0
\* and raising a RuntimeError otherwise
DumpSafe ==
    /\ dp_entry \o dp_chan.buffer = Produced
    /\ dp_pc \in {"status", "returned", "raised"} => dp_entry = Produced
    /\ dp_pc = "returned" => dp_chan.reported /\ dp_chan.status = 0
    /\ dp_pc = "raised" => dp_chan.status # 0 /\ dp_error.exc = "RuntimeError"

Ancestors(p) ==
    [k \in 1..(Len(PurePosixPath(p).segs) + 1) |->
        IF k = 1 THEN <<SLASH>> ELSE PrefixPath(p, k - 1)]

\* the requests of the log from number from on are the mkdir requests for the
\* paths of the sequence, in that order
MkdirsFor(ops, from, paths) ==
    /\ from >= 1 /\ from + Len(paths) - 1 <= Len(ops)
    /\ \A k \in 1..Len(paths) :
          /\ ops[from + k - 1].op = "mkdir"
          /\ ops[from + k - 1].path = paths[k]

\* directories below the destination root: one that entries may have made, one
\* where an entry may have left a file or a link, one that no entry makes
EnsurePaths ==
    { BaseRoot \o <<SLASH, "r">>, BaseRoot \o <<SLASH, "r", SLASH, "b">>,
      BaseRoot \o <<SLASH, "n", SLASH, "m">> }

\* C16: on every remote tree an upload run passes through, ensure_remote_dirs
\* requests mkdir for every ancestor of the path from the topmost down to the
\* path itself, whatever fails on the way; a second call on the same path
\* requests the same, leaves the tree as it is and raises nothing; and every
\* open of a file for writing comes after the mkdir requests for the ancestors
\* of its parent, made for the same entry.
C16_EnsureDirsIdempotent ==
    LET ops == up_remote.ops
    IN  /\ \A p \in EnsurePaths :
              LET R1 == ensure_remote_dirs(up_remote, p, 0)
                  R2 == ensure_remote_dirs(R1, p, 0)
                  paths == Ancestors(p)
              IN  /\ Len(R1.ops) = Len(ops) + Len(paths)
                  /\ MkdirsFor(R1.ops, Len(ops) + 1, paths)
                  /\ MkdirsFor(R2.ops, Len(R1.ops) + 1, paths)
                  /\ R2.fs = R1.fs /\ R2.failed = R1.failed
                  /\ \A a \in DOMAIN up_remote.fs : a \in DOMAIN R1.fs /\ R1.fs[a] = up_remote.fs[a]
        /\ \A k \in 1..Len(ops) :
              ops[k].op = "open" =>
                  LET paths == Ancestors(PathStr(PathParent(PurePosixPath(ops[k].path))))
                  IN  \E j \in 1..(k - 1) :
                          ops[j].entry = ops[k].entry /\ MkdirsFor(ops, j, paths)

\* C16 witness: two entries went to the same directory, so that the second
\* entry's call found it made, and both files were written
C16_Witness ==
    LET ops == up_remote.ops
        dir == BaseRoot \o <<SLASH, "r">>
    IN  /\ \E i \in 1..Len(ops) :
              ops[i].op = "mkdir" /\ ops[i].path = dir /\ ops[i].ok /\ ops[i].entry = 1
        /\ \E i \in 1..Len(ops) :
              ops[i].op = "mkdir" /\ ops[i].path = dir /\ ~ops[i].ok /\ ops[i].entry = 2
        /\ \E i \in 1..Len(ops) : ops[i].op = "open" /\ ops[i].ok /\ ops[i].entry = 2

(***************************************************************************)
(* Claims about the release of the client and the archive                  *)
(***************************************************************************)
Released == rs_client = "closed" /\ rs_archive = 0

\* C12: whenever the pull or the push has returned control, by normal
\* completion, by an exception or by sys.exit for an unsupported archive
\* type, the SSH client is closed and no handle of the archive is open.
C12_ReleasedOnEveryExit ==
    /\ pl_pc \in {"done", "failed"} => Released
    /\ ps_pc \in {"done", "failed"} => Released

\* C12 witness: a push whose importer ended with a failure status while the
\* archive was open for the SQL member has failed with everything released
C12_Witness ==
    /\ ps_pc = "failed" /\ ps_error.exc = "RuntimeError"
    /\ Len(ps_cmds) = 3 /\ ps_cmds[3].code = 1
    /\ Released

(***************************************************************************)
(* Specifications                                                          *)
(***************************************************************************)
\* the client exists and is not closed; no archive is open, or the one the
\* with block around the loop has opened
ResIdle == rs_client = "open" /\ rs_archive = 0
ResInside == rs_client = "open" /\ rs_archive = 1

InitRoute == RouteInit /\ UploadIdle /\ WalkIdle /\ PullIdle /\ ModeIdle /\ PushIdle /\ ResIdle /\ DumpIdle
SpecRoute == InitRoute /\ [][RouteNext]_vars

InitUpload == UploadInit /\ RouteIdle /\ WalkIdle /\ PullIdle /\ ModeIdle /\ PushIdle /\ ResInside /\ DumpIdle
SpecUpload == InitUpload /\ [][UploadNext]_vars

InitWalk == WalkInit /\ RouteIdle /\ UploadIdle /\ PullIdle /\ ModeIdle /\ PushIdle /\ ResIdle /\ DumpIdle
SpecWalk == InitWalk /\ [][WalkNext]_vars

InitPull == PullInit /\ WalkInit /\ RouteIdle /\ UploadIdle /\ ModeIdle /\ PushIdle /\ ResInside /\ DumpIdle
SpecPull == InitPull /\ [][PullNext]_vars

InitMode == ModeInit /\ RouteIdle /\ UploadIdle /\ WalkIdle /\ PullIdle /\ PushIdle /\ ResIdle /\ DumpIdle
SpecMode == InitMode /\ [][ModeNext]_vars

InitPush == PushInit /\ RouteIdle /\ WalkIdle /\ PullIdle /\ ModeIdle /\ ResIdle /\ DumpIdle
SpecPush == InitPush /\ [][PushNext]_vars

InitDump ==
    /\ DumpInit /\ RouteIdle /\ UploadIdle /\ WalkIdle /\ PullIdle /\ ModeIdle
    /\ PushIdle /\ ResInside

\* the loop keeps running, recv_exit_status returns when it can, and the
\* remote command comes to an end or the channel is closed
SpecDump ==
    /\ InitDump /\ [][DumpNext]_vars
    /\ WF_vars(DumpWrite) /\ WF_vars(DumpEmptyRead) /\ WF_vars(DumpExitStatus)
    /\ WF_vars(DumpRemoteEnds)

\* one run of either program
InitRun == InitPull \/ InitPush
RunNext == PullNext \/ PushNext
SpecRun == InitRun /\ [][RunNext]_vars

=============================================================================
